---- MODULE Spec2Model ----
(***************************************************************************)
(* Model of src/src/tefs/utils.py: the two selectors that read a trace of  *)
(* iteration records produced by a greedy feature-selection search.        *)
(*   select_features   (ThresholdSelector)  lines 8-76                     *)
(*   select_n_features (CountSelector)      lines 78-127                   *)
(* A call is a small state machine: the argument checks, one step per      *)
(* iteration of the for loop, and the code after the loop.  The outcome of *)
(* a call is a returned collection, the value None, or a raised exception. *)
(***************************************************************************)
EXTENDS Integers, Sequences, FiniteSets

\* ---------------------------------------------------------------- bounds
MaxLen == 2          \* longest trace of a select_features call
MaxLenN == 3         \* longest trace of a select_n_features call
NumFeatures == 2     \* feature identifiers are 0 .. NumFeatures-1

\* ---------------------------------------------------------------- inputs
Features == 0 .. (NumFeatures - 1)
Scores == {-1, 1}
Thresholds == {1}
\* aggregate scores below, at and above the threshold
TEs == {0, 1, 2}
Directions == {"forward", "backward", "sideways"}
Ns == 0 .. (NumFeatures + 1)

\* feature_scores: a dict from feature index to score, possibly empty
FeatureScoreMaps(S) == UNION {[K -> S] : K \in SUBSET Features}

\* An iteration record.  TEnum = FALSE stands for a "TE" entry that is not
\* a float or an int (its numeric field is then never read).
IterationResult(S, T) ==
    [TE : T, TEnum : {TRUE}, fs : FeatureScoreMaps(S)]
    \cup [TE : {0}, TEnum : {FALSE}, fs : FeatureScoreMaps(S)]

\* The records of a select_n_features call, which reads neither score: the
\* aggregate score and the feature scores vary together.
CountResult ==
    {[TE |-> v + 1, TEnum |-> TRUE, fs |-> [k \in K |-> v]] :
        K \in SUBSET Features, v \in Scores}

\* the traces of exactly k records
Traces(R, k) == [1 .. k -> R]

\* ---------------------------------------------------------------- helpers
Keys(it) == DOMAIN it.fs
Values(it) == {it.fs[k] : k \in DOMAIN it.fs}
Min(S) == CHOOSE v \in S : \A w \in S : v <= w
Max(S) == CHOOSE v \in S : \A w \in S : v >= w

\* outcomes of a call
Running == [kind |-> "running", value |-> {}, err |-> "", msg |-> ""]
Return(s) == [kind |-> "return", value |-> s, err |-> "", msg |-> ""]
ReturnNone == [kind |-> "none", value |-> {}, err |-> "", msg |-> ""]
Raise(e, m) == [kind |-> "raise", value |-> {}, err |-> e, msg |-> m]

VARIABLES op, results, threshold, n, direction,
          pc, idx, stop, initial_features, num_total_features, outcome

vars == <<op, results, threshold, n, direction,
          pc, idx, stop, initial_features, num_total_features, outcome>>

inputs == <<op, results, threshold, n, direction>>

\* initial_features is None until the first record is read
None == [set |-> FALSE, keys |-> {}]
Captured(K) == [set |-> TRUE, keys |-> K]

\* ------------------------------------------------- select_features (8-76)
ValidDirection_Any(d) == d \in {"forward", "backward", "sideways"}

ValidDirection(d) == d \in {"forward", "backward"}

ThresholdReached_Geq(it, th) == it.TE >= th

ThresholdReached(it, th) == it.TE > th

SignStop(d, it) ==
    \/ d = "backward" /\ Min(Values(it)) > 0
    \/ d = "forward" /\ Max(Values(it)) < 0

StopResult_NoComplement(d, init, it) == Keys(it)

StopResult(d, init, it) ==
    IF d = "backward" THEN Keys(it) ELSE init \ Keys(it)

FallbackResult_First(d, res, init) ==
    IF d = "backward" THEN Keys(res[1]) ELSE init

FallbackResult_Nothing(d, res, init) ==
    IF d = "backward" THEN {} ELSE init

FallbackResult(d, res, init) ==
    IF d = "backward" THEN Keys(res[Len(res)]) ELSE init

InitThreshold ==
    /\ op = "select_features"
    /\ \E k \in 0 .. MaxLen : results \in Traces(IterationResult(Scores, TEs), k)
    /\ threshold \in Thresholds
    /\ n = 0
    /\ direction \in Directions
    /\ pc = "start"
    /\ idx = 0
    /\ stop = FALSE
    /\ initial_features = None
    /\ num_total_features = 0
    /\ outcome = Running

\* line 28: assert direction in ["forward", "backward"]
Sel_CheckDirectionFail ==
    /\ op = "select_features" /\ pc = "start"
    /\ ~ValidDirection(direction)
    /\ outcome' = Raise("AssertionError", "Invalid direction")
    /\ pc' = "done"
    /\ UNCHANGED <<inputs, idx, stop, initial_features, num_total_features>>

\* lines 28-33: the direction is accepted, the loop is entered
Sel_Enter ==
    /\ op = "select_features" /\ pc = "start"
    /\ ValidDirection(direction)
    /\ pc' = "loop"
    /\ idx' = 1
    /\ UNCHANGED <<inputs, stop, initial_features, num_total_features, outcome>>

\* lines 36-37: a record that is not well formed
Sel_InvalidRecord ==
    /\ op = "select_features" /\ pc = "loop" /\ idx <= Len(results)
    /\ ~results[idx].TEnum
    /\ outcome' = Raise("AssertionError", "TE score must be a number")
    /\ pc' = "done"
    /\ UNCHANGED <<inputs, idx, stop, initial_features, num_total_features>>

\* lines 39-53 on a record with no feature scores: min()/max() of an empty
\* sequence raises ValueError, after the threshold test and before line 59
Sel_EmptyScores ==
    /\ op = "select_features" /\ pc = "loop" /\ idx <= Len(results)
    /\ results[idx].TEnum
    /\ Keys(results[idx]) = {}
    /\ initial_features' =
          IF initial_features.set THEN initial_features
          ELSE Captured(Keys(results[idx]))
    /\ stop' = (stop \/ ThresholdReached(results[idx], threshold))
    /\ outcome' = Raise("ValueError", "arg is an empty sequence")
    /\ pc' = "done"
    /\ UNCHANGED <<inputs, idx, num_total_features>>

\* lines 35-66: one iteration of the loop on a well-formed record
Sel_Iterate ==
    /\ op = "select_features" /\ pc = "loop" /\ idx <= Len(results)
    /\ results[idx].TEnum
    /\ Keys(results[idx]) # {}
    /\ LET it == results[idx]
           init == IF initial_features.set THEN initial_features
                   ELSE Captured(Keys(it))
           st == \/ stop
                 \/ ThresholdReached(it, threshold)
                 \/ SignStop(direction, it)
       IN /\ initial_features' = init
          /\ stop' = st
          /\ IF st
             THEN /\ outcome' = Return(StopResult(direction, init.keys, it))
                  /\ pc' = "done"
                  /\ idx' = idx
             ELSE /\ outcome' = outcome
                  /\ pc' = "loop"
                  /\ idx' = idx + 1
    /\ UNCHANGED <<inputs, num_total_features>>

\* lines 68-76: the loop ended without a stop
Sel_Fallback ==
    /\ op = "select_features" /\ pc = "loop" /\ idx > Len(results)
    /\ outcome' =
          IF Len(results) = 0
          THEN IF direction = "backward"
               THEN Raise("IndexError", "list index out of range")
               ELSE Raise("TypeError", "object is not iterable")
          ELSE Return(FallbackResult(direction, results, initial_features.keys))
    /\ pc' = "done"
    /\ UNCHANGED <<inputs, idx, stop, initial_features, num_total_features>>

NextThreshold ==
    \/ Sel_CheckDirectionFail
    \/ Sel_Enter
    \/ Sel_InvalidRecord
    \/ Sel_EmptyScores
    \/ Sel_Iterate
    \/ Sel_Fallback

SpecThreshold == InitThreshold /\ [][NextThreshold]_vars

\* --------------------------------------------- select_n_features (78-127)
\* line 109: the record holds exactly n features
CountReached_AtMost(it, k) == Cardinality(Keys(it)) <= k

CountReached(it, k) == Cardinality(Keys(it)) = k

\* line 110: what the backward scan returns at the matching record
BackwardResult(it) == Keys(it)

\* line 124: what the forward scan returns at the matching record
ForwardResult_NoComplement(init, it) == Keys(it)

ForwardResult(init, it) == init \ Keys(it)

\* line 127: what the forward scan returns when no record matched
ForwardEndResult(init) == init

\* lines 100-101: the two assertions on n
ValidN_NoLowerBound(k, total) == k <= total

ValidN(k, total) == k <= total /\ k > 0

InitCount ==
    /\ op = "select_n_features"
    /\ \E k \in 0 .. MaxLenN : results \in Traces(CountResult, k)
    /\ threshold = 0
    /\ n \in Ns
    /\ direction \in Directions
    /\ pc = "start"
    /\ idx = 0
    /\ stop = FALSE
    /\ initial_features = None
    /\ num_total_features = 0
    /\ outcome = Running

\* line 98: assert direction in ["forward", "backward"]
SelN_CheckDirectionFail ==
    /\ op = "select_n_features" /\ pc = "start"
    /\ ~ValidDirection(direction)
    /\ outcome' = Raise("AssertionError", "Invalid direction")
    /\ pc' = "done"
    /\ UNCHANGED <<inputs, idx, stop, initial_features, num_total_features>>

\* line 99 on a trace without a first record: results[0] raises IndexError
SelN_NoFirstRecord ==
    /\ op = "select_n_features" /\ pc = "start"
    /\ ValidDirection(direction)
    /\ Len(results) = 0
    /\ outcome' = Raise("IndexError", "list index out of range")
    /\ pc' = "done"
    /\ UNCHANGED <<inputs, idx, stop, initial_features, num_total_features>>

\* lines 99-101: n is outside 1 .. num_total_features
SelN_CheckNFail ==
    /\ op = "select_n_features" /\ pc = "start"
    /\ ValidDirection(direction)
    /\ Len(results) > 0
    /\ LET total == Cardinality(Keys(results[1]))
       IN /\ ~ValidN(n, total)
          /\ num_total_features' = total
          /\ outcome' = IF n > total
                        THEN Raise("AssertionError", "n must be <= total")
                        ELSE Raise("AssertionError", "n must be > 0")
    /\ pc' = "done"
    /\ UNCHANGED <<inputs, idx, stop, initial_features>>

\* lines 98-105/112: the arguments are accepted, a loop is entered
SelN_Enter ==
    /\ op = "select_n_features" /\ pc = "start"
    /\ ValidDirection(direction)
    /\ Len(results) > 0
    /\ LET total == Cardinality(Keys(results[1]))
       IN /\ ValidN(n, total)
          /\ num_total_features' = total
    /\ pc' = "loop"
    /\ idx' = 1
    /\ UNCHANGED <<inputs, stop, initial_features, outcome>>

\* lines 107-110: one iteration of the backward loop
SelN_BackwardIterate ==
    /\ op = "select_n_features" /\ pc = "loop" /\ direction = "backward"
    /\ idx <= Len(results)
    /\ IF CountReached(results[idx], n)
       THEN /\ outcome' = Return(BackwardResult(results[idx]))
            /\ pc' = "done"
            /\ idx' = idx
       ELSE /\ outcome' = outcome
            /\ pc' = "loop"
            /\ idx' = idx + 1
    /\ UNCHANGED <<inputs, stop, initial_features, num_total_features>>

\* after line 110: the backward loop ends and the function falls off its
\* end, which returns None
SelN_BackwardEnd ==
    /\ op = "select_n_features" /\ pc = "loop" /\ direction = "backward"
    /\ idx > Len(results)
    /\ outcome' = ReturnNone
    /\ pc' = "done"
    /\ UNCHANGED <<inputs, idx, stop, initial_features, num_total_features>>

\* lines 116-124: one iteration of the forward loop
SelN_ForwardIterate ==
    /\ op = "select_n_features" /\ pc = "loop" /\ direction = "forward"
    /\ idx <= Len(results)
    /\ LET it == results[idx]
           init == IF initial_features.set THEN initial_features
                   ELSE Captured(Keys(it))
       IN /\ initial_features' = init
          /\ IF CountReached(it, num_total_features - n)
             THEN /\ outcome' = Return(ForwardResult(init.keys, it))
                  /\ pc' = "done"
                  /\ idx' = idx
             ELSE /\ outcome' = outcome
                  /\ pc' = "loop"
                  /\ idx' = idx + 1
    /\ UNCHANGED <<inputs, stop, num_total_features>>

\* lines 126-127: the forward loop ended without a match
SelN_ForwardEnd ==
    /\ op = "select_n_features" /\ pc = "loop" /\ direction = "forward"
    /\ idx > Len(results)
    /\ outcome' = Return(ForwardEndResult(initial_features.keys))
    /\ pc' = "done"
    /\ UNCHANGED <<inputs, idx, stop, initial_features, num_total_features>>

NextCount ==
    \/ SelN_CheckDirectionFail
    \/ SelN_NoFirstRecord
    \/ SelN_CheckNFail
    \/ SelN_Enter
    \/ SelN_BackwardIterate
    \/ SelN_BackwardEnd
    \/ SelN_ForwardIterate
    \/ SelN_ForwardEnd

SpecCount == InitCount /\ [][NextCount]_vars

\* ------------------------------------------------------ both selectors
Init == InitThreshold \/ InitCount

Next == NextThreshold \/ NextCount

Spec == Init /\ [][Next]_vars

\* ------------------------------------------------------------ properties
\* The conditions below are written from the statements being checked, on
\* the inputs of the call only.
Done == pc = "done"

WellFormed(it) == it.TEnum /\ Keys(it) # {}

AllPositive(it) == \A k \in Keys(it) : it.fs[k] > 0
AllNegative(it) == \A k \in Keys(it) : it.fs[k] < 0

SignCondition(it) ==
    \/ direction = "backward" /\ AllPositive(it)
    \/ direction = "forward" /\ AllNegative(it)

StopCondition(it) == it.TE > threshold \/ SignCondition(it)

\* record i is the first one that satisfies the stop condition, and the
\* records up to it are well formed
FirstStop(i) ==
    /\ \A j \in 1 .. i : WellFormed(results[j])
    /\ StopCondition(results[i])
    /\ \A j \in 1 .. (i - 1) : ~StopCondition(results[j])

NoStop ==
    \A j \in 1 .. Len(results) :
        WellFormed(results[j]) /\ ~StopCondition(results[j])

Size(i) == Cardinality(Keys(results[i]))

\* record i is the first one with k keys
FirstWithCount(i, k) ==
    /\ Size(i) = k
    /\ \A j \in 1 .. (i - 1) : Size(j) # k

NoneWithCount(k) == \A j \in 1 .. Len(results) : Size(j) # k

ArgsInRange ==
    /\ direction \in {"forward", "backward"}
    /\ Len(results) >= 1
    /\ 1 <= n /\ n <= Size(1)

\* C1: select_features, when some record satisfies the stop condition
\* (aggregate score above the threshold, or backward with all scores
\* positive, or forward with all scores negative) and the records up to
\* the first such record i are well formed, returns keys(record i) when
\* backward and keys(record 0) minus keys(record i) when forward; no later
\* record takes part.
C1_FirstStopDecides ==
    (op = "select_features" /\ Done /\ direction \in {"forward", "backward"})
    => \A i \in 1 .. Len(results) :
          FirstStop(i)
          => outcome = Return(IF direction = "backward"
                              THEN Keys(results[i])
                              ELSE Keys(results[1]) \ Keys(results[i]))

C1_Witness ==
    /\ op = "select_features" /\ Done /\ direction = "forward"
    /\ Len(results) >= 2 /\ FirstStop(2)
    /\ outcome.kind = "return" /\ outcome.value # {}
    /\ outcome.value # Keys(results[2])

\* C2: select_features, on a well-formed record whose aggregate score
\* equals the threshold and whose scores do not satisfy the sign condition
\* of the direction, does not stop: the scan moves to the next record
\* without an outcome.
C2_EqualThresholdContinues ==
    [][(/\ op = "select_features" /\ pc = "loop" /\ idx <= Len(results)
        /\ WellFormed(results[idx])
        /\ results[idx].TE = threshold
        /\ ~SignCondition(results[idx]))
       => (pc' = "loop" /\ idx' = idx + 1 /\ outcome' = Running)]_vars

C2_Witness ==
    /\ op = "select_features" /\ idx = 2 /\ Len(results) >= 2
    /\ WellFormed(results[1])
    /\ results[1].TE = threshold
    /\ ~SignCondition(results[1])
    /\ Done /\ outcome.kind = "return"

\* C3: select_features, on a non-empty trace of well-formed records none of
\* which satisfies the stop condition, returns the key set of the last
\* record when backward and the key set of the first record when forward.
C3_EndOfTraceFallback ==
    (/\ op = "select_features" /\ Done
     /\ direction \in {"forward", "backward"}
     /\ Len(results) >= 1 /\ NoStop)
    => outcome = Return(IF direction = "backward"
                        THEN Keys(results[Len(results)])
                        ELSE Keys(results[1]))

C3_Witness ==
    /\ op = "select_features" /\ Done /\ direction = "backward"
    /\ Len(results) >= 2 /\ NoStop
    /\ Keys(results[Len(results)]) # Keys(results[1])
    /\ outcome.kind = "return"

\* C4 (as stated): select_n_features forward, on a trace whose key sets grow
\* from the empty set to the universe one feature at a time, with
\* 1 <= n <= |universe|, returns the universe minus the keys of the first
\* record that has |universe| - n keys.
C4_GrowingFromEmpty ==
    (/\ op = "select_n_features" /\ Done /\ direction = "forward"
     /\ Len(results) >= 2
     /\ Keys(results[1]) = {}
     /\ \A j \in 1 .. (Len(results) - 1) :
           /\ Keys(results[j]) \subseteq Keys(results[j + 1])
           /\ Size(j + 1) = Size(j) + 1
     /\ 1 <= n /\ n <= Size(Len(results)))
    => /\ outcome.kind = "return"
       /\ \A i \in 1 .. Len(results) :
             FirstWithCount(i, Size(Len(results)) - n)
             => outcome.value = Keys(results[Len(results)]) \ Keys(results[i])

\* C4 (amended): select_n_features forward takes the universe and the total
\* from the first record: with 1 <= n <= total and a record that has
\* total - n keys, it returns keys(first record) minus the keys of the
\* first such record.
C4_ForwardComplement ==
    (op = "select_n_features" /\ Done /\ direction = "forward" /\ ArgsInRange)
    => \A i \in 1 .. Len(results) :
          FirstWithCount(i, Size(1) - n)
          => outcome = Return(Keys(results[1]) \ Keys(results[i]))

C4_Witness ==
    /\ op = "select_n_features" /\ Done /\ direction = "forward"
    /\ ArgsInRange /\ Len(results) >= 3
    /\ Size(1) = 2 /\ n = 1
    /\ Size(2) = 1 /\ Keys(results[2]) \subseteq Keys(results[1])
    /\ Size(3) = 0
    /\ outcome.kind = "return" /\ Cardinality(outcome.value) = 1

\* C5: select_n_features, when the arguments are in range and no record has
\* the requested cardinality (backward: n keys; forward with n below the
\* total: total - n keys), fails with NotFound.
C5_NoMatchIsNotFound ==
    (/\ op = "select_n_features" /\ Done /\ ArgsInRange
     /\ \/ direction = "backward" /\ NoneWithCount(n)
        \/ direction = "forward" /\ n < Size(1) /\ NoneWithCount(Size(1) - n))
    => (outcome.kind = "raise" /\ outcome.err = "NotFound")

\* C6: select_n_features, on a trace whose key sets shrink (backward) or grow
\* (forward) and with 1 <= n <= total, returns only collections of exactly
\* n features.
C6_ExactlyN ==
    (/\ op = "select_n_features" /\ Done /\ ArgsInRange
     /\ \A j \in 1 .. (Len(results) - 1) :
           IF direction = "backward"
           THEN Keys(results[j + 1]) \subseteq Keys(results[j])
           ELSE Keys(results[j]) \subseteq Keys(results[j + 1])
     /\ outcome.kind = "return")
    => Cardinality(outcome.value) = n

\* C7: select_n_features backward, with 1 <= n <= total and some record of n
\* keys, returns the key set of the first record of n keys, whatever the
\* scores in the trace.
C7_BackwardFirstWithCount ==
    (op = "select_n_features" /\ Done /\ direction = "backward" /\ ArgsInRange)
    => \A i \in 1 .. Len(results) :
          FirstWithCount(i, n) => outcome = Return(Keys(results[i]))

C7_Witness ==
    /\ op = "select_n_features" /\ Done /\ direction = "backward"
    /\ ArgsInRange /\ Len(results) >= 3
    /\ FirstWithCount(2, n) /\ Size(3) = n
    /\ Keys(results[3]) # Keys(results[2])
    /\ results[1].TE # results[2].TE
    /\ outcome.kind = "return"

\* C8: select_features, when the scan reaches a record with no feature
\* scores, fails with the error raised for a malformed record (the
\* assertion error of lines 36-37).
C8_EmptyScoresIsInvalidRecord ==
    (op = "select_features" /\ Done /\ direction \in {"forward", "backward"})
    => \A i \in 1 .. Len(results) :
          (/\ Keys(results[i]) = {}
           /\ \A j \in 1 .. (i - 1) :
                 WellFormed(results[j]) /\ ~StopCondition(results[j]))
          => (outcome.kind = "raise" /\ outcome.err = "AssertionError")

\* C9: select_features backward, on a non-empty trace of well-formed records,
\* returns a non-empty collection.
C9_BackwardNonEmpty ==
    (/\ op = "select_features" /\ Done /\ direction = "backward"
     /\ Len(results) >= 1
     /\ \A j \in 1 .. Len(results) : WellFormed(results[j]))
    => (outcome.kind = "return" /\ outcome.value # {})

C9_Witness ==
    /\ op = "select_features" /\ Done /\ direction = "backward"
    /\ Len(results) >= 1 /\ NoStop
    /\ idx = Len(results) + 1
    /\ outcome.kind = "return" /\ Cardinality(outcome.value) = 1

\* C10: a direction other than forward and backward (both selectors), and
\* for select_n_features an n below 1 or above the key count of the first
\* record, fail with the argument assertion before any record is scanned:
\* the scan is never entered and nothing is returned.
BadArguments ==
    \/ direction \notin {"forward", "backward"}
    \/ /\ op = "select_n_features" /\ Len(results) >= 1
       /\ (n < 1 \/ n > Size(1))

C10_EagerInvalidArgument ==
    (pc # "start" /\ BadArguments)
    => /\ Done
       /\ outcome.kind = "raise" /\ outcome.err = "AssertionError"
       /\ outcome.msg \in {"Invalid direction", "n must be <= total",
                           "n must be > 0"}
       /\ idx = 0 /\ ~initial_features.set

C10_Witness ==
    /\ op = "select_n_features" /\ Done
    /\ direction = "backward" /\ Len(results) >= 2
    /\ n < 1 /\ Size(1) >= 1 /\ Size(2) = 0
    /\ outcome.kind = "raise"

====
